---- MODULE Spec2Model ----
(***************************************************************************)
(* Model of src/mcp_daemon/convert_to_json.py: the heading-tree builder    *)
(* (parse_markdown) and the two section extractors                         *)
(* (collect_sections_top_level, collect_sections_flatten).                 *)
(*                                                                         *)
(* Text is a sequence of one-character strings.  The alphabet is "#", " ", *)
(* "a", "b" and the line terminator "\n".  A tree is an arena: a sequence  *)
(* of Node records addressed by index, the root at index 1, children held  *)
(* as index lists in insertion order.                                      *)
(***************************************************************************)
EXTENDS Integers, Sequences, FiniteSets, TLC

VARIABLES lines, pos, nodes, stack, pc, mode, level_arg, title_path, frames, out

vars == <<lines, pos, nodes, stack, pc, mode, level_arg, title_path, frames, out>>

---------------------------------------------------------------------------
(* Bounds of the model.                                                    *)

MaxLines == 3
MaxHashes == 3

---------------------------------------------------------------------------
(* Strings.                                                                *)

NL == "\n"

\* str.isspace() / the regex class \s, on the model's alphabet
IsSpace(c) == c \in {" ", NL}

RECURSIVE LStrip(_)
LStrip(s) == IF s # <<>> /\ IsSpace(Head(s)) THEN LStrip(Tail(s)) ELSE s

RECURSIVE RStrip(_)
RStrip(s) ==
  IF s # <<>> /\ IsSpace(s[Len(s)]) THEN RStrip(SubSeq(s, 1, Len(s) - 1)) ELSE s

\* str.strip()
Strip(s) == RStrip(LStrip(s))

\* sep.join(parts)
RECURSIVE Join(_, _)
Join(parts, sep) ==
  IF parts = <<>> THEN <<>>
  ELSE IF Len(parts) = 1 THEN parts[1]
  ELSE parts[1] \o sep \o Join(Tail(parts), sep)

\* str.splitlines(): the pieces between line terminators; a terminator at the
\* very end of the text opens no further (empty) line.
RECURSIVE SplitFrom(_, _)
SplitFrom(text, cur) ==
  IF text = <<>> THEN (IF cur = <<>> THEN <<>> ELSE <<cur>>)
  ELSE IF Head(text) = NL THEN <<cur>> \o SplitFrom(Tail(text), <<>>)
  ELSE SplitFrom(Tail(text), Append(cur, Head(text)))

SplitLines(text) == SplitFrom(text, <<>>)

\* "#" * k
RECURSIVE Hashes(_)
Hashes(k) == IF k <= 0 THEN <<>> ELSE <<"#">> \o Hashes(k - 1)

---------------------------------------------------------------------------
(* HEADING_RE: one to six "#" at line start, whitespace, then the title.  *)

MaxHeadingLevel == 6

RECURSIVE CountHashes(_)
CountHashes(s) ==
  IF s # <<>> /\ Head(s) = "#" THEN 1 + CountHashes(Tail(s)) ELSE 0

\* HEADING_RE.match(line) is not None.  The run of "#" must be 1..6 long and be
\* followed by whitespace: a shorter take of a longer run would leave a "#"
\* where \s+ has to match.
HeadingMatches(line) ==
  LET k == CountHashes(line)
  IN  /\ k >= 1
      /\ k <= MaxHeadingLevel
      /\ Len(line) > k
      /\ IsSpace(line[k + 1])

\* m.groups(): \s+ is greedy and takes the whole whitespace run, (.*) takes the
\* rest of the line, \s* is left with nothing.
HeadingGroups(line) ==
  LET k == CountHashes(line)
  IN  [hashes |-> SubSeq(line, 1, k),
       title  |-> LStrip(SubSeq(line, k + 1, Len(line)))]

---------------------------------------------------------------------------
(* class Node                                                              *)

\* Node.__init__
Node(level, title) ==
  [level         |-> level,
   title         |-> Strip(title),
   content_lines |-> <<>>,
   children      |-> <<>>]

\* the loop of Node.content(): drop trailing lines that are blank
RECURSIVE DropTrailingBlank(_)
DropTrailingBlank(ls) ==
  IF ls # <<>> /\ Strip(ls[Len(ls)]) = <<>>
  THEN DropTrailingBlank(SubSeq(ls, 1, Len(ls) - 1))
  ELSE ls

\* Node.content()
Content(node) == Join(DropTrailingBlank(node.content_lines), <<NL>>)

---------------------------------------------------------------------------
(* parse_markdown                                                          *)

RootId == 1

\* root = Node(0, "ROOT"); the sentinel title is kept as one symbol
RootTitle == <<"ROOT">>

InitParse ==
  [nodes |-> <<Node(0, RootTitle)>>, stack |-> <<RootId>>, failed |-> FALSE]

\* Variants of the pop loop, each a slip the loop could have: the stack reset
\* to the root, a single pop ("if" for "while"), and ">" for ">=".
PopToRoot(ns, st, level) == <<st[1]>>

PopOnce(ns, st, level) ==
  IF st # <<>> /\ ns[st[Len(st)]].level >= level
  THEN SubSeq(st, 1, Len(st) - 1)
  ELSE st

RECURSIVE PopToGT(_, _, _)
PopToGT(ns, st, level) ==
  IF st # <<>> /\ ns[st[Len(st)]].level > level
  THEN PopToGT(ns, SubSeq(st, 1, Len(st) - 1), level)
  ELSE st

\* while stack and stack[-1].level >= level: stack.pop()
RECURSIVE PopTo(_, _, _)
PopTo(ns, st, level) ==
  IF st # <<>> /\ ns[st[Len(st)]].level >= level
  THEN PopTo(ns, SubSeq(st, 1, Len(st) - 1), level)
  ELSE st

\* Variant: levels counted from zero.
HeadingLevelFromZero(hashes) == Len(hashes) - 1

\* level = len(hashes)
HeadingLevel(hashes) == Len(hashes)

\* One iteration of the loop over md_text.splitlines().  failed records an
\* IndexError raised by stack[-1] on an empty stack.
ParseStep(ps, raw_line) ==
  IF HeadingMatches(raw_line)
  THEN LET g     == HeadingGroups(raw_line)
           level == HeadingLevel(g.hashes)
           st    == PopTo(ps.nodes, ps.stack, level)
           id    == Len(ps.nodes) + 1
       IN  IF st = <<>>
           THEN [ps EXCEPT !.stack = st, !.failed = TRUE]
           ELSE [nodes  |-> Append([ps.nodes EXCEPT ![st[Len(st)]].children =
                                                       Append(@, id)],
                                   Node(level, g.title)),
                 stack  |-> Append(st, id),
                 failed |-> FALSE]
  ELSE IF ps.stack = <<>>
       THEN [ps EXCEPT !.failed = TRUE]
       ELSE [ps EXCEPT !.nodes[ps.stack[Len(ps.stack)]].content_lines =
                                                       Append(@, raw_line)]

RECURSIVE ParseLines(_, _)
ParseLines(ps, ls) ==
  IF ls = <<>> \/ ps.failed THEN ps
  ELSE ParseLines(ParseStep(ps, Head(ls)), Tail(ls))

\* parse_markdown(md_text), as a function of the text; the tree it returns
parse_markdown(text) == ParseLines(InitParse, SplitLines(text)).nodes
---------------------------------------------------------------------------
(* _section_content_with_children                                          *)

NonEmpty(p) == p # <<>>

RECURSIVE SectionContent(_, _)
RECURSIVE ChildBlocks(_, _)

\* the loop over node.children: one block per child, the heading rebuilt as
\* "#" * level + " " + title, then the child's own reconstruction if any
ChildBlocks(ns, cs) ==
  IF cs = <<>> THEN <<>>
  ELSE LET child   == ns[Head(cs)]
           heading == Hashes(child.level) \o <<" ">> \o child.title
           content == SectionContent(ns, Head(cs))
           block   == IF content # <<>> THEN <<heading, content>> ELSE <<heading>>
       IN  <<Strip(Join(block, <<NL>>))>> \o ChildBlocks(ns, Tail(cs))

\* _section_content_with_children(node)
SectionContent(ns, id) ==
  LET own   == Strip(Content(ns[id]))
      parts == (IF own # <<>> THEN <<own>> ELSE <<>>)
                 \o ChildBlocks(ns, ns[id].children)
  IN  Join(SelectSeq(parts, NonEmpty), <<NL, NL>>)

---------------------------------------------------------------------------
(* collect_sections_top_level                                              *)

\* An emitted pair (path_titles, content).  node is the arena index of the
\* Node the pair was emitted for: a history field, read by no operation.
Record(id, path_titles, content) ==
  [node |-> id, path |-> path_titles, content |-> content]

RECURSIVE TopWalk(_, _, _, _)
RECURSIVE TopWalkChildren(_, _, _, _)

\* the body of the loop "for child in node.children" of walk
TopWalkChildren(ns, cs, top_level, acc) ==
  IF cs = <<>> THEN acc
  ELSE LET child == Head(cs)
           acc1  == IF ns[child].level = top_level
                    THEN Append(acc, Record(child, <<ns[child].title>>,
                                            SectionContent(ns, child)))
                    ELSE acc
       IN  TopWalkChildren(ns, Tail(cs), top_level,
                           TopWalk(ns, child, top_level, acc1))

\* Variant: only the children of the root are visited.
TopWalkRootOnly(ns, id, top_level, acc) ==
  IF id = RootId THEN TopWalkChildren(ns, ns[id].children, top_level, acc) ELSE acc

\* walk(node), threading the list out
TopWalk(ns, id, top_level, acc) ==
  TopWalkChildren(ns, ns[id].children, top_level, acc)

collect_sections_top_level(ns, top_level) == TopWalk(ns, RootId, top_level, <<>>)

---------------------------------------------------------------------------
(* collect_sections_flatten                                                *)

NoTitles == [lvl \in {} |-> <<>>]

\* title_path[level] = title
SetTitle(tp, level, title) ==
  [lvl \in DOMAIN tp \cup {level} |-> IF lvl = level THEN title ELSE tp[lvl]]

\* title_path.pop(level, None)
PopTitle(tp, level) == [lvl \in DOMAIN tp \ {level} |-> tp[lvl]]

\* sorted(S)
RECURSIVE Sorted(_)
Sorted(S) ==
  IF S = {} THEN <<>>
  ELSE LET m == CHOOSE x \in S : \A y \in S : x <= y
       IN  <<m>> \o Sorted(S \ {m})

\* path_titles, from the levels of title_path that are >= start_level
PathTitles(tp, start_level) ==
  LET levels == Sorted({lvl \in DOMAIN tp : lvl >= start_level})
  IN  [k \in 1..Len(levels) |-> tp[levels[k]]]

\* Variants of the head of walk: nodes with no content of their own are not
\* emitted; the content is emitted as Node.content() returns it.
WalkEnterSkipEmpty(ns, id, start_level, tp, acc) ==
  IF ns[id].level >= start_level
  THEN LET tp1 == SetTitle(tp, ns[id].level, ns[id].title)
       IN  [title_path |-> tp1,
            out |-> IF Strip(Content(ns[id])) = <<>> THEN acc
                    ELSE Append(acc, Record(id, PathTitles(tp1, start_level),
                                            Strip(Content(ns[id]))))]
  ELSE [title_path |-> tp, out |-> acc]

WalkEnterNoStrip(ns, id, start_level, tp, acc) ==
  IF ns[id].level >= start_level
  THEN LET tp1 == SetTitle(tp, ns[id].level, ns[id].title)
       IN  [title_path |-> tp1,
            out |-> Append(acc, Record(id, PathTitles(tp1, start_level),
                                       Content(ns[id])))]
  ELSE [title_path |-> tp, out |-> acc]

\* The head of walk(node), up to the loop over the children: the state of
\* title_path and out when the loop starts.
WalkEnter(ns, id, start_level, tp, acc) ==
  IF ns[id].level >= start_level
  THEN LET tp1 == SetTitle(tp, ns[id].level, ns[id].title)
       IN  [title_path |-> tp1,
            out |-> Append(acc, Record(id, PathTitles(tp1, start_level),
                                       Strip(Content(ns[id]))))]
  ELSE [title_path |-> tp, out |-> acc]

\* Variant: no cleanup on unwind.
WalkExitNoCleanup(ns, id, tp) == tp

\* The tail of walk(node), after the loop: cleanup on unwind.
WalkExit(ns, id, tp) ==
  IF ns[id].level \in DOMAIN tp THEN PopTitle(tp, ns[id].level) ELSE tp

---------------------------------------------------------------------------
(* Input documents.                                                        *)

\* heading texts as written in the document, before trimming
RawTitles == {<<"a">>, <<"b", " ">>}

HeadingLines ==
  {Hashes(h) \o <<" ">> \o t : h \in 1..MaxHashes, t \in RawTitles}

\* an empty line, a blank line, an indented line that starts with a marker,
\* a marker with no whitespace after it, a heading with no text
OtherLines ==
  {<<>>, <<" ">>, <<" ", "#", " ", "a">>, <<"#", "a">>, <<"#", " ">>}

Lines == HeadingLines \cup OtherLines

RECURSIVE SeqsUpTo(_, _)
SeqsUpTo(S, n) ==
  IF n = 0 THEN {<<>>}
  ELSE LET shorter == SeqsUpTo(S, n - 1)
       IN  shorter \cup {Append(d, l) : d \in {x \in shorter : Len(x) = n - 1}, l \in S}

Documents == {Join(d, <<NL>>) : d \in SeqsUpTo(Lines, MaxLines)}

\* the integer level parameter (--level)
LevelArgs == 0..MaxHashes

---------------------------------------------------------------------------
(* The program: main() reads the text, parses it and runs one extractor.   *)

\* text = open(args.input).read(); the list md_text.splitlines() the loop of
\* parse_markdown runs over is built once, before the first iteration
Init ==
  /\ lines \in {SplitLines(md_text) : md_text \in Documents}
  /\ pos = 1
  /\ nodes = InitParse.nodes
  /\ stack = InitParse.stack
  /\ pc = "parse"
  /\ mode = "none"
  /\ level_arg = 0
  /\ title_path = NoTitles
  /\ frames = <<>>
  /\ out = <<>>

\* one iteration of "for raw_line in md_text.splitlines()"
ParseLine ==
  /\ pc = "parse"
  /\ pos <= Len(lines)
  /\ LET ps == ParseStep([nodes |-> nodes, stack |-> stack, failed |-> FALSE],
                         lines[pos])
     IN  /\ nodes' = ps.nodes
         /\ stack' = ps.stack
         /\ pc' = IF ps.failed THEN "failed" ELSE "parse"
  /\ pos' = pos + 1
  /\ UNCHANGED <<lines, mode, level_arg, title_path, frames, out>>

\* parse_markdown has returned root
Parsed == pc = "parse" /\ pos > Len(lines)

\* entries = collect_sections_top_level(root, top_level=args.level)
CollectTopLevel ==
  /\ Parsed
  /\ \E top_level \in LevelArgs :
       /\ level_arg' = top_level
       /\ out' = collect_sections_top_level(nodes, top_level)
  /\ mode' = "top_level"
  /\ pc' = "done"
  /\ UNCHANGED <<lines, pos, nodes, stack, title_path, frames>>

\* entries = collect_sections_flatten(root, start_level=args.level): walk(root)
\* is entered.  A frame is a walk call in progress: its node and the index of
\* the next child to visit.
FlattenStart ==
  /\ Parsed
  /\ \E start_level \in LevelArgs :
       /\ level_arg' = start_level
       /\ LET e == WalkEnter(nodes, RootId, start_level, NoTitles, <<>>)
          IN  title_path' = e.title_path /\ out' = e.out
  /\ frames' = <<[node |-> RootId, next |-> 1]>>
  /\ mode' = "flatten"
  /\ pc' = "walk"
  /\ UNCHANGED <<lines, pos, nodes, stack>>

\* "for child in node.children: walk(child)": the next child is entered
FlattenDescend ==
  /\ pc = "walk"
  /\ LET top == frames[Len(frames)]
     IN  /\ top.next <= Len(nodes[top.node].children)
         /\ LET child == nodes[top.node].children[top.next]
                e     == WalkEnter(nodes, child, level_arg, title_path, out)
            IN  /\ title_path' = e.title_path
                /\ out' = e.out
                /\ frames' = Append([frames EXCEPT ![Len(frames)].next = @ + 1],
                                    [node |-> child, next |-> 1])
  /\ UNCHANGED <<lines, pos, nodes, stack, pc, mode, level_arg>>

\* the loop over the children is over: cleanup, and walk(node) returns
FlattenUnwind ==
  /\ pc = "walk"
  /\ LET top == frames[Len(frames)]
     IN  /\ top.next > Len(nodes[top.node].children)
         /\ title_path' = WalkExit(nodes, top.node, title_path)
         /\ frames' = SubSeq(frames, 1, Len(frames) - 1)
         /\ pc' = IF Len(frames) = 1 THEN "done" ELSE "walk"
  /\ UNCHANGED <<lines, pos, nodes, stack, mode, level_arg, out>>

Next ==
  \/ ParseLine
  \/ CollectTopLevel
  \/ FlattenStart
  \/ FlattenDescend
  \/ FlattenUnwind

Spec == Init /\ [][Next]_vars

\* parse_markdown alone
NextParse == ParseLine

SpecParse == Init /\ [][NextParse]_vars

\* main() without --flatten
NextTopLevel ==
  \/ ParseLine
  \/ CollectTopLevel

SpecTopLevel == Init /\ [][NextTopLevel]_vars

\* main() with --flatten
NextFlatten ==
  \/ ParseLine
  \/ FlattenStart
  \/ FlattenDescend
  \/ FlattenUnwind

SpecFlatten == Init /\ [][NextFlatten]_vars
---------------------------------------------------------------------------
(* Derived notions of the tree, read off the children lists.               *)

NodeIds(ns) == 1..Len(ns)

ChildSet(ns, p) == {ns[p].children[k] : k \in 1..Len(ns[p].children)}

\* the nodes that list n as a child
ParentsOf(ns, n) == {p \in NodeIds(ns) : n \in ChildSet(ns, p)}

ParentOf(ns, n) == CHOOSE p \in NodeIds(ns) : n \in ChildSet(ns, p)

\* the chain root .. n, root first
RECURSIVE Chain(_, _)
Chain(ns, n) ==
  IF ParentsOf(ns, n) = {} THEN <<n>> ELSE Append(Chain(ns, ParentOf(ns, n)), n)

RECURSIVE PreOrder(_, _)
RECURSIVE PreOrderAll(_, _)

PreOrderAll(ns, cs) ==
  IF cs = <<>> THEN <<>> ELSE PreOrder(ns, Head(cs)) \o PreOrderAll(ns, Tail(cs))

\* depth-first pre-order of the subtree of n, n first
PreOrder(ns, n) == <<n>> \o PreOrderAll(ns, ns[n].children)

SeqRange(q) == {q[k] : k \in 1..Len(q)}

\* n and all its descendants
Subtree(ns, n) == SeqRange(PreOrder(ns, n))

\* levels, titles and child order of everything below n
RECURSIVE Shape(_, _)
Shape(ns, n) ==
  [k \in 1..Len(ns[n].children) |->
     LET c == ns[n].children[k]
     IN  <<ns[c].level, ns[c].title, Shape(ns, c)>>]

\* the heading lines of the document read so far, in order
HeadingLinesRead == SelectSeq(SubSeq(lines, 1, pos - 1), HeadingMatches)

\* the subsequence of q whose nodes satisfy level >= lo and level <= hi
RECURSIVE LevelFilter(_, _, _, _)
LevelFilter(ns, q, lo, hi) ==
  IF q = <<>> THEN <<>>
  ELSE (IF ns[Head(q)].level >= lo /\ ns[Head(q)].level <= hi
        THEN <<Head(q)>> ELSE <<>>) \o LevelFilter(ns, Tail(q), lo, hi)

\* the heading nodes in document order: they are created in that order
HeadingIds(ns) == [k \in 1..(Len(ns) - 1) |-> k + 1]

OutNodes == [k \in 1..Len(out) |-> out[k].node]

TitlesOf(ns, q) == [k \in 1..Len(q) |-> ns[q[k]].title]

FlattenDone == pc = "done" /\ mode = "flatten"
TopLevelDone == pc = "done" /\ mode = "top_level"
---------------------------------------------------------------------------
(* Properties.                                                             *)

Max(S) == CHOOSE x \in S : \A y \in S : y <= x

\* the earlier headings of n whose level is strictly less than n's
LowerBefore(ns, n) == {k \in 2..(n - 1) : ns[k].level < ns[n].level}

\* C1: the parent of the node of a heading line of level L is the node of the
\* latest earlier heading line whose level is strictly less than L, or the
\* root when there is none.  Node n (n >= 2) is the node of the (n-1)-th
\* heading line read.
C1_ParentIsLatestLowerHeading ==
  /\ Len(nodes) = 1 + Len(HeadingLinesRead)
  /\ \A n \in 2..Len(nodes) :
       /\ nodes[n].level = CountHashes(HeadingLinesRead[n - 1])
       /\ ParentsOf(nodes, n) =
            {IF LowerBefore(nodes, n) = {} THEN RootId
             ELSE Max(LowerBefore(nodes, n))}

\* C1 witness: the whole text is parsed and a level-1 heading is directly
\* followed by a heading at least two levels deeper, which is its child.
C1_Witness_LevelJump ==
  /\ Parsed
  /\ \E n \in 2..(Len(nodes) - 1) :
       /\ nodes[n].level = 1
       /\ nodes[n + 1].level >= 3
       /\ ParentsOf(nodes, n + 1) = {n}

\* C2: every child of a node has a level strictly greater than the node's;
\* exactly one node has level 0, the root; the root has no parent and every
\* other node has exactly one parent, which lists it once.
C2_ChildrenDeeperOneRootOneParent ==
  /\ \A p \in NodeIds(nodes) : \A k \in 1..Len(nodes[p].children) :
       /\ nodes[p].children[k] \in NodeIds(nodes)
       /\ nodes[nodes[p].children[k]].level > nodes[p].level
  /\ {n \in NodeIds(nodes) : nodes[n].level = 0} = {RootId}
  /\ ParentsOf(nodes, RootId) = {}
  /\ \A n \in NodeIds(nodes) \ {RootId} :
       /\ Cardinality(ParentsOf(nodes, n)) = 1
       /\ \A p \in ParentsOf(nodes, n) :
            Cardinality({k \in 1..Len(nodes[p].children) :
                           nodes[p].children[k] = n}) = 1

\* C2 witness: a parsed tree where the root has two children and a heading
\* has a child of its own.
C2_Witness_NestedTree ==
  /\ Parsed
  /\ Len(nodes[RootId].children) >= 2
  /\ \E n \in NodeIds(nodes) \ {RootId} : nodes[n].children # <<>>

\* C9: the ancestor stack is never empty, its bottom element is the root, its
\* levels increase strictly from bottom to top, and the pop loop leaves the
\* root in place whatever heading level comes next; parsing never fails.
C9_StackRootedAndIncreasing ==
  /\ pc # "failed"
  /\ stack # <<>>
  /\ stack[1] = RootId
  /\ \A k \in 1..(Len(stack) - 1) :
       nodes[stack[k]].level < nodes[stack[k + 1]].level
  /\ \A level \in 1..MaxHeadingLevel :
       LET st == PopTo(nodes, stack, level)
       IN  st # <<>> /\ st[1] = RootId

\* C9 witness: two headings were read and the second popped the first.
C9_Witness_Popped ==
  /\ Parsed
  /\ Len(nodes) >= 3
  /\ Len(stack) = 2

\* the titles of the ancestors of n (n included) whose level is >= start_level
AncestorTitles(ns, n, start_level) ==
  TitlesOf(ns, LevelFilter(ns, Chain(ns, n), start_level, MaxHeadingLevel))

FrameNodes == [k \in 1..Len(frames) |-> frames[k].node]

\* C4: with start_level >= 1, the path of every emitted record is the titles
\* of the node's ancestors of level >= start_level, root to leaf, then the
\* node's own title; while the walk runs, title_path holds exactly the
\* entries of the nodes on the current root-to-node chain, and none once the
\* walk has returned.
C4_FlattenPathIsAncestorChain ==
  (mode = "flatten" /\ level_arg >= 1) =>
    /\ \A k \in 1..Len(out) :
         out[k].path = AncestorTitles(nodes, out[k].node, level_arg)
    /\ pc = "walk" =>
         /\ FrameNodes = Chain(nodes, frames[Len(frames)].node)
         /\ DOMAIN title_path =
              {nodes[FrameNodes[k]].level : k \in
                 {j \in 1..Len(frames) : nodes[FrameNodes[j]].level >= level_arg}}
         /\ \A k \in 1..Len(frames) :
              nodes[FrameNodes[k]].level >= level_arg =>
                title_path[nodes[FrameNodes[k]].level] = nodes[FrameNodes[k]].title
    /\ pc = "done" => title_path = NoTitles

\* C4 witness: siblings A then B, A emitted and at a level that neither B nor
\* B's child D has; D's path is B's title then D's own, without A's title.
C4_Witness_SiblingUnwound ==
  /\ FlattenDone
  /\ level_arg >= 1
  /\ \E a, b, d \in NodeIds(nodes) \ {RootId} :
       /\ a < b
       /\ ParentsOf(nodes, a) = ParentsOf(nodes, b)
       /\ ParentsOf(nodes, d) = {b}
       /\ nodes[a].level >= level_arg
       /\ nodes[a].level \notin {nodes[b].level, nodes[d].level}
       /\ \E k \in 1..Len(out) :
            /\ out[k].node = d
            /\ out[k].path = <<nodes[b].title, nodes[d].title>>
            /\ nodes[a].title \notin SeqRange(out[k].path)

\* the levels of the heading lines of the whole document that are >= lo
RECURSIVE DocLevels(_, _, _)
DocLevels(ls, lo, hi) ==
  IF ls = <<>> THEN <<>>
  ELSE (IF HeadingMatches(Head(ls)) /\ CountHashes(Head(ls)) >= lo
           /\ CountHashes(Head(ls)) <= hi
        THEN <<CountHashes(Head(ls))>> ELSE <<>>)
         \o DocLevels(Tail(ls), lo, hi)

OutLevels == [k \in 1..Len(out) |-> nodes[out[k].node].level]

\* C5: with start_level >= 1, flatten returns one record per heading node of
\* level >= start_level and no other, in depth-first pre-order, which is the
\* order of the heading lines in the document; nodes with empty content are
\* included; no heading at or below start_level gives the empty sequence.
C5_FlattenOneRecordPerHeading ==
  (FlattenDone /\ level_arg >= 1) =>
    /\ OutNodes = LevelFilter(nodes, Tail(PreOrder(nodes, RootId)),
                              level_arg, MaxHeadingLevel)
    /\ OutNodes = LevelFilter(nodes, HeadingIds(nodes), level_arg, MaxHeadingLevel)
    /\ OutLevels = DocLevels(lines, level_arg, MaxHeadingLevel)

\* C5 witness: a shallower heading is left out, two deeper ones are emitted,
\* one of them with empty content.
C5_Witness_EmptyContentEmitted ==
  /\ FlattenDone
  /\ level_arg >= 2
  /\ Len(out) >= 2
  /\ Len(out) < Len(nodes) - 1
  /\ \E k \in 1..Len(out) : out[k].content = <<>>

\* C6: with top_level in 1..6, the top-level extractor returns one record per
\* node of level top_level, each with the path [title], in depth-first
\* pre-order, which is document order; a document without heading lines
\* gives the empty sequence.
C6_TopLevelOneRecordPerMatch ==
  (TopLevelDone /\ level_arg >= 1 /\ level_arg <= MaxHeadingLevel) =>
    /\ OutNodes = LevelFilter(nodes, Tail(PreOrder(nodes, RootId)),
                              level_arg, level_arg)
    /\ OutNodes = LevelFilter(nodes, HeadingIds(nodes), level_arg, level_arg)
    /\ OutLevels = DocLevels(lines, level_arg, level_arg)
    /\ \A k \in 1..Len(out) : out[k].path = <<nodes[out[k].node].title>>
    /\ (HeadingLinesRead = <<>> => out = <<>>)

\* C6 witness: two records, one of them for a node that is not a child of
\* the root.
C6_Witness_DeepMatch ==
  /\ TopLevelDone
  /\ level_arg >= 1
  /\ Len(out) >= 2
  /\ \E k \in 1..Len(out) : ParentsOf(nodes, out[k].node) # {RootId}

\* C10: no node emitted by the top-level extractor is a descendant of another
\* emitted node: the subtrees of the emitted nodes are pairwise disjoint, so
\* every heading and its content lines lie in at most one record.
C10_TopLevelMatchesNeverNest ==
  TopLevelDone =>
    \A i, j \in 1..Len(out) :
      i # j => Subtree(nodes, out[i].node) \cap Subtree(nodes, out[j].node) = {}

\* C10 witness: two records, and a matched node with children the walk went
\* on into.
C10_Witness_WalkedIntoMatch ==
  /\ TopLevelDone
  /\ Len(out) >= 2
  /\ \E k \in 1..Len(out) : nodes[out[k].node].children # <<>>

\* C3, as claimed: parsing the content of a top-level record gives a tree
\* whose nodes below the root have the levels, titles and child order of the
\* subtree below the matched node.
C3_SectionContentRoundTrips ==
  TopLevelDone =>
    \A k \in 1..Len(out) :
      Shape(parse_markdown(out[k].content), RootId) = Shape(nodes, out[k].node)

\* C7, as claimed: whatever the level parameter, no record is a record for
\* the root and the root's sentinel title is in no emitted path.
C7_RootNeverEmitted ==
  \A k \in 1..Len(out) :
    /\ out[k].node # RootId
    /\ Node(0, RootTitle).title \notin SeqRange(out[k].path)

\* C8, as claimed: the content of a flatten record is the node's content lines
\* joined by newlines with the trailing blank lines removed and nothing else
\* changed.  Stated for start_level >= 1, where every record is a heading's.
C8_ContentTrailingTrimOnly ==
  (mode = "flatten" /\ level_arg >= 1) =>
    \A k \in 1..Len(out) :
      out[k].content =
        Join(DropTrailingBlank(nodes[out[k].node].content_lines), <<NL>>)

\* C8, amended: the content of a flatten record is the node's content lines
\* joined by newlines with the whitespace at both ends removed (leading and
\* trailing blank lines, the indentation of the first line left, the
\* trailing whitespace of the last) and nothing else changed; it neither
\* starts nor ends with whitespace, so it ends in no blank line.
C8_ContentStrippedBothEnds ==
  mode = "flatten" =>
    \A k \in 1..Len(out) :
      LET full == Join(nodes[out[k].node].content_lines, <<NL>>)
          c    == out[k].content
      IN  /\ c = <<>> \/ (~IsSpace(c[1]) /\ ~IsSpace(c[Len(c)]))
          /\ \E i \in 1..(Len(full) + 1) :
               /\ i + Len(c) - 1 <= Len(full)
               /\ SubSeq(full, i, i + Len(c) - 1) = c
               /\ \A j \in 1..(i - 1) : IsSpace(full[j])
               /\ \A j \in (i + Len(c))..Len(full) : IsSpace(full[j])

\* C8 witness: a record with content, for a heading whose content lines
\* start with whitespace and end with a blank line.
C8_Witness_BothEndsTrimmed ==
  /\ FlattenDone
  /\ level_arg >= 1
  /\ \E k \in 1..Len(out) :
       LET ls == nodes[out[k].node].content_lines
       IN  /\ out[k].node # RootId
           /\ out[k].content # <<>>
           /\ Len(ls) >= 2
           /\ ls[1] # <<>> /\ IsSpace(ls[1][1])
           /\ Strip(ls[Len(ls)]) = <<>>

====
